---- MODULE Spec2Model ----
(***************************************************************************)
(* A model of src/metadata.py: the decoder of a Metaplex token-metadata    *)
(* account (unpack_metadata_account) and the fetch-and-retry loop that     *)
(* feeds it (get_metadata).                                                *)
(*                                                                         *)
(* A byte string is a sequence of integers 0..255.  A Python str is the    *)
(* sequence of its code points.  A base-58 text is the sequence of its     *)
(* characters, each a one-character string.  The cursor i is the Python    *)
(* index (0-based): data[i] of the source is data[i + 1] here.             *)
(***************************************************************************)
EXTENDS Integers, Sequences, FiniteSets

(***************************************************************************)
(* Python integers are unbounded and the model checker's end at 2^31 - 1,  *)
(* below the largest value of an unsigned 32-bit length.  A length or size *)
(* is therefore carried exactly, in two 16-bit halves: [hi, lo] is the     *)
(* integer hi * 65536 + lo, with 0 <= lo < 65536.  <<0,0,0,128>> unpacks   *)
(* to [hi |-> 32768, lo |-> 0], which is 2147483648, and                   *)
(* <<255,255,255,255>> to [hi |-> 65535, lo |-> 65535], 4294967295.        *)
(***************************************************************************)
HalfWord == 65536

\* The integer k in halves.
Wide(k) == [hi |-> k \div HalfWord, lo |-> k % HalfWord]

\* The integer of n, for n below 2^31.
Narrow(n) == n.hi * HalfWord + n.lo

\* m < n and m <= n on halves.
WideLt(m, n) == m.hi < n.hi \/ (m.hi = n.hi /\ m.lo < n.lo)

WideLe(m, n) == m = n \/ WideLt(m, n)

\* min(n, m) for a size n and a model integer m.
Clip(n, m) == IF WideLe(n, Wide(m)) THEN Narrow(n) ELSE m

(***************************************************************************)
(* Python and library primitives the decoder is written with.              *)
(***************************************************************************)

\* The first byte of a metadata account (src/metadata.py:53).
MetadataV1 == 4

\* The width of a public key: "B"*32 and i += 32 (src/metadata.py:59-60).
KeyLen == 32

\* range(3): the first fetch attempt and two more (src/metadata.py:155).
FetchAttempts == 3

\* data[a:b] with 0 <= a, given as the start a and the width n = b - a: a
\* Python slice never fails, it is cut at the end of the buffer.
Slice(d, a, n) == SubSeq(d, a + 1, a + Clip(n, Len(d) - a))

\* A read that puts 0 where the buffer has no byte.
IndexOrZero(d, idx) == IF idx < Len(d) THEN << d[idx + 1] >> ELSE << 0 >>

\* data[idx] for idx >= 0: << the byte >>, or << >> for the IndexError that
\* an index at or past len(data) raises.
Index(d, idx) == IF idx < Len(d) THEN << d[idx + 1] >> ELSE << >>

\* A size test that takes a slice shorter than the format.
SizeLoose(n, s) == WideLe(Wide(Len(s)), n)

\* The size test of struct.unpack(fmt, s), made once fmt has been built:
\* len(s) is the size of fmt, which is n for '<' + "B"*n, 4 for '<I' and
\* 2 for '<h'.
SizeOK(n, s) == Wide(Len(s)) = n

\* What building the format '<' + "B"*n of n characters can raise, before
\* any size is compared: MemoryError, when the string or its compiled form
\* does not fit in memory.  Whether it fits depends on the machine; the
\* model leaves both open from 2^24 characters on.
FormatErrors(n) ==
    IF WideLe(Wide(16777216), n) THEN { "MemoryError" } ELSE { }

\* The ways struct.unpack(fmt, s) can end for a format of n bytes: "ok" when
\* it returns the bytes of s, or the name of the exception it raises.  The
\* format is built first, then the size of s is tested.
UnpackOutcomes(n, s) ==
    FormatErrors(n) \cup { IF SizeOK(n, s) THEN "ok" ELSE "struct.error" }

\* A version test that takes any first byte.
VersionAny(b) == TRUE

\* data[0] == 4
VersionOK(b) == b = MetadataV1

\* A flag test that always enters the creator block.
TruthyAlways(b) == TRUE

\* if has_creator: an int is true unless it is 0.
Truthy(b) == b # 0

\* A loop that makes one pass too few.
InRangeShort(done, n) == WideLt(Wide(done + 1), n)

\* for _ in range(n): another pass follows done passes.
InRange(done, n) == WideLt(Wide(done), n)

\* struct.unpack('<I', s)[0]: four bytes, little-endian, unsigned; the
\* value s[1] + 256*s[2] + 65536*s[3] + 16777216*s[4], in halves.
UnpackU32(s) == [hi |-> s[3] + 256 * s[4], lo |-> s[1] + 256 * s[2]]

\* struct.unpack('<h', s)[0]: two bytes, little-endian, two's complement.
UnpackI16(s) ==
    LET u == s[1] + 256 * s[2]
    IN  IF u >= 32768 THEN u - 65536 ELSE u

\* The alphabet of base58.b58encode (the Bitcoin alphabet).
B58Alphabet ==
    << "1", "2", "3", "4", "5", "6", "7", "8", "9",
       "A", "B", "C", "D", "E", "F", "G", "H", "J", "K", "L", "M", "N",
       "P", "Q", "R", "S", "T", "U", "V", "W", "X", "Y", "Z",
       "a", "b", "c", "d", "e", "f", "g", "h", "i", "j", "k", "m", "n",
       "o", "p", "q", "r", "s", "t", "u", "v", "w", "x", "y", "z" >>

B58Base == 58

\* divmod(acc, 58) on a big-endian byte string without leading zeros: the
\* quotient (again without leading zeros) and the remainder.
RECURSIVE DivMod58(_, _, _)
DivMod58(num, rem, quot) ==
    IF num = << >> THEN << quot, rem >>
    ELSE LET cur == rem * 256 + Head(num)
             q   == cur \div B58Base
         IN  DivMod58(Tail(num), cur % B58Base,
                      IF quot = << >> /\ q = 0 THEN << >> ELSE Append(quot, q))

\* b58encode_int(acc, default_one=False): the digits of acc, most
\* significant first; the empty text for acc = 0.
RECURSIVE B58EncodeInt(_, _)
B58EncodeInt(acc, string) ==
    IF acc = << >> THEN string
    ELSE LET dm == DivMod58(acc, 0, << >>)
         IN  B58EncodeInt(dm[1], << B58Alphabet[dm[2] + 1] >> \o string)

\* v.lstrip(b'\0')
RECURSIVE LStripZero(_)
LStripZero(v) ==
    IF v # << >> /\ Head(v) = 0 THEN LStripZero(Tail(v)) ELSE v

\* base58.b58encode(v): one "1" for each leading zero byte, then the digits
\* of the rest read as a big-endian integer.
B58Encode(v) ==
    LET rest == LStripZero(v)
    IN  [j \in 1..(Len(v) - Len(rest)) |-> B58Alphabet[1]]
            \o B58EncodeInt(rest, << >>)

\* A continuation byte of UTF-8.
IsCont(b) == b >= 128 /\ b <= 191

\* The number of bytes of the UTF-8 sequence that starts s, 0 when s starts
\* with no well-formed sequence (CPython's strict decoder: no overlong form,
\* no surrogate, nothing above U+10FFFF).
Utf8SeqLen(s) ==
    LET b == s[1]
        n == Len(s)
    IN  IF b < 128 THEN 1
        ELSE IF b >= 194 /\ b <= 223
            THEN IF n >= 2 /\ IsCont(s[2]) THEN 2 ELSE 0
        ELSE IF b >= 224 /\ b <= 239
            THEN IF n >= 3 /\ IsCont(s[2]) /\ IsCont(s[3])
                    /\ (b = 224 => s[2] >= 160)
                    /\ (b = 237 => s[2] <= 159)
                 THEN 3 ELSE 0
        ELSE IF b >= 240 /\ b <= 244
            THEN IF n >= 4 /\ IsCont(s[2]) /\ IsCont(s[3]) /\ IsCont(s[4])
                    /\ (b = 240 => s[2] >= 144)
                    /\ (b = 244 => s[2] <= 143)
                 THEN 4 ELSE 0
        ELSE 0

\* The code point of the well-formed sequence of k bytes that starts s.
Utf8CodePoint(s, k) ==
    IF k = 1 THEN s[1]
    ELSE IF k = 2 THEN (s[1] - 192) * 64 + (s[2] - 128)
    ELSE IF k = 3 THEN (s[1] - 224) * 4096 + (s[2] - 128) * 64 + (s[3] - 128)
    ELSE (s[1] - 240) * 262144 + (s[2] - 128) * 4096
             + (s[3] - 128) * 64 + (s[4] - 128)

\* bytes(t).decode("utf-8"): the code points, or UnicodeDecodeError.
RECURSIVE Utf8Decode(_, _)
Utf8Decode(s, acc) ==
    IF s = << >> THEN [ok |-> TRUE, text |-> acc]
    ELSE LET k == Utf8SeqLen(s)
         IN  IF k = 0 THEN [ok |-> FALSE, text |-> << >>]
             ELSE Utf8Decode(SubSeq(s, k + 1, Len(s)),
                             Append(acc, Utf8CodePoint(s, k)))

\* str.lstrip("\x00") and str.rstrip("\x00")
RECURSIVE LStripNul(_)
LStripNul(t) ==
    IF t # << >> /\ Head(t) = 0 THEN LStripNul(Tail(t)) ELSE t

RECURSIVE RStripNul(_)
RStripNul(t) ==
    IF t # << >> /\ t[Len(t)] = 0 THEN RStripNul(SubSeq(t, 1, Len(t) - 1))
    ELSE t

\* str.strip("\x00") removes the character at both ends.
StripNul(t) == RStripNul(LStripNul(t))

\* A Python value whose type a caller can observe: bool is a subclass of
\* int, True == 1 and False == 0.
PyInt(n) == [type |-> "int", val |-> n]

\* bool(data[i])
PyBool(b) == [type |-> "bool", val |-> IF b # 0 THEN 1 ELSE 0]

(***************************************************************************)
(* The state: get_metadata's frame, unpack_metadata_account's frame, and   *)
(* what the caller sees.                                                   *)
(***************************************************************************)
VARIABLES
    pc,                     \* the statement about to run
    err,                    \* the exception that ended the call, "" if none
    attempt,                \* the loop variable of range(3) in get_metadata
    acc_info,               \* get_metadata's local: the last response
    calls,                  \* the outcome of each get_account_info call so far
    invoked,                \* unpack_metadata_account has been called
    src,                    \* how the buffer in data was built
    data,                   \* the buffer handed to unpack_metadata_account
    i,                      \* the byte index
    source_account, mint_account,
    name_len, name, symbol_len, symbol, uri_len, uri,
    fee,
    has_creator, creator_len, creators, verified, share,
    primary_sale_happened, is_mutable,
    metadata                \* << >> until the call returns, then << dict >>

fetchVars   == << attempt, acc_info, calls, invoked, src, data >>
keyVars     == << source_account, mint_account >>
textVars    == << name_len, name, symbol_len, symbol, uri_len, uri >>
creatorVars == << has_creator, creator_len, creators, verified, share >>
flagVars    == << primary_sale_happened, is_mutable >>
localVars   == << i, keyVars, textVars, fee, creatorVars, flagVars >>
vars        == << pc, err, fetchVars, localVars, metadata >>

(***************************************************************************)
(* The buffers the model is run on.  A record gives the content of each    *)
(* field of the wire form; Encode lays it out; an input is that layout     *)
(* with, possibly, another first byte, other bytes as the length of name,  *)
(* only a prefix kept, and bytes added after it.                           *)
(***************************************************************************)

\* The longest name, and the most creators, of a record.
MaxTextLen == 3
MaxCreators == 2

\* The longest name, and the most creators, of a record cut at every offset.
MaxCutTextLen == 1
MaxCutCreators == 1

\* NUL, "A", and the two bytes of U+00E9 in UTF-8 (a lead byte, which alone
\* is ill-formed, and a continuation byte).
TextBytes == { 0, 65, 195, 169 }

\* Every byte string over S of length at most n.
SeqsUpTo(S, n) == UNION { [1..k -> S] : k \in 0..n }

KeyOf(b) == [j \in 1..KeyLen |-> b]

\* A key with leading zero bytes and mixed digits.
KeyMixed == [j \in 1..KeyLen |-> IF j <= 2 THEN 0 ELSE 7 * j]

Keys == { KeyOf(0), KeyOf(1), KeyMixed }

FlagBytes == { 0, 1, 2, 255 }

Fees == { 0, 500, 32767, -1, -32768 }

\* A creator entry of the wire form: address, verified byte, share byte.
CreatorEntries ==
    { [address |-> a, verified |-> vs[1], share |-> vs[2]] :
        a \in { KeyOf(1), KeyMixed },
        vs \in { << 0, 100 >>, << 1, 0 >>, << 2, 50 >> } }

\* The record of the spec's concrete scenario: name "Foo", symbol "F", no
\* uri, a fee of 500, no creators.
BaseRecord ==
    [ update_authority |-> KeyOf(1), mint |-> KeyOf(2),
      name |-> << 70, 111, 111 >>, symbol |-> << 70 >>, uri |-> << >>,
      fee |-> 500, has_creator |-> 0, creators |-> << >>,
      primary_sale_happened |-> 1, is_mutable |-> 0 ]

TextRecords(n) ==
    { [BaseRecord EXCEPT !.name = t] : t \in SeqsUpTo(TextBytes, n) }
    \cup { [BaseRecord EXCEPT !.symbol = t[1], !.uri = t[2]] :
             t \in SeqsUpTo(TextBytes, 1) \X SeqsUpTo(TextBytes, 1) }

KeyRecords ==
    { [BaseRecord EXCEPT !.update_authority = k[1], !.mint = k[2]] :
        k \in Keys \X Keys }

FeeRecords == { [BaseRecord EXCEPT !.fee = f] : f \in Fees }

FlagRecords ==
    { [BaseRecord EXCEPT !.primary_sale_happened = b[1], !.is_mutable = b[2]] :
        b \in FlagBytes \X FlagBytes }

CreatorRecords(n) ==
    { [BaseRecord EXCEPT !.has_creator = h, !.creators = cs] :
        h \in { 1, 255 }, cs \in SeqsUpTo(CreatorEntries, n) }

Records ==
    TextRecords(MaxTextLen) \cup KeyRecords \cup FeeRecords \cup FlagRecords
        \cup CreatorRecords(MaxCreators)

CutRecords ==
    TextRecords(MaxCutTextLen) \cup FlagRecords
        \cup CreatorRecords(MaxCutCreators)

\* struct.pack('<I', n) and struct.pack('<h', n)
PackU32(n) ==
    << n % 256, (n \div 256) % 256, (n \div 65536) % 256, n \div 16777216 >>

PackI16(n) ==
    LET u == IF n < 0 THEN n + 65536 ELSE n
    IN  << u % 256, u \div 256 >>

RECURSIVE EncodeCreators(_)
EncodeCreators(cs) ==
    IF cs = << >> THEN << >>
    ELSE Head(cs).address \o << Head(cs).verified, Head(cs).share >>
             \o EncodeCreators(Tail(cs))

\* The wire form of a record.
Encode(r) ==
    << MetadataV1 >> \o r.update_authority \o r.mint
        \o PackU32(Len(r.name)) \o r.name
        \o PackU32(Len(r.symbol)) \o r.symbol
        \o PackU32(Len(r.uri)) \o r.uri
        \o PackI16(r.fee)
        \o << r.has_creator >>
        \o (IF r.has_creator # 0
            THEN PackU32(Len(r.creators)) \o EncodeCreators(r.creators)
            ELSE << >>)
        \o << r.primary_sale_happened, r.is_mutable >>

\* The offset of the length of name: after the version byte and two keys.
NameLenOffset == 1 + KeyLen + KeyLen

\* The buffer of an input: the record's wire form with the first byte
\* replaced by version, the length of name replaced by nlen unless nlen is
\* empty, cut to its first keep bytes, and followed by tail.
Buffer(in) ==
    LET full  == Encode(in.rec)
        relen == IF in.nlen = << >> THEN full
                 ELSE SubSeq(full, 1, NameLenOffset) \o in.nlen
                          \o SubSeq(full, NameLenOffset + 5, Len(full))
    IN  SubSeq(<< in.version >> \o Tail(relen), 1, in.keep) \o in.tail

Whole(r) ==
    [rec |-> r, version |-> MetadataV1, nlen |-> << >>,
     keep |-> Len(Encode(r)), tail |-> << >>]

ValidInputs == { Whole(r) : r \in Records }

PaddedInputs ==
    { [Whole(r) EXCEPT !.tail = t] :
        r \in FlagRecords \cup CreatorRecords(1),
        t \in { << 0 >>, << 7, 0 >> } }

CutInputs ==
    UNION { { [Whole(r) EXCEPT !.keep = c] : c \in 0..(Len(Encode(r)) - 1) } :
              r \in CutRecords }

VersionInputs ==
    UNION { { [Whole(r) EXCEPT !.version = v, !.keep = c] :
                v \in { 0, 3, 5, 255 },
                c \in { 1, KeyLen, Len(Encode(r)) } } :
              r \in { BaseRecord, [BaseRecord EXCEPT !.name = << 195 >>] } }

LengthInputs ==
    { [Whole(r) EXCEPT !.nlen = n] :
        r \in CreatorRecords(1) \cup { BaseRecord },
        n \in { << 4, 0, 0, 0 >>, << 20, 0, 0, 0 >>, << 0, 1, 0, 0 >>,
                << 255, 255, 255, 127 >>, << 0, 0, 0, 128 >>,
                << 1, 0, 0, 128 >>, << 255, 255, 255, 255 >> } }

Inputs ==
    ValidInputs \cup PaddedInputs \cup CutInputs \cup VersionInputs
        \cup LengthInputs

\* What get_account_info can answer with in the model of get_metadata.
FetchInputs ==
    { Whole(BaseRecord),
      Whole([BaseRecord EXCEPT !.has_creator = 1,
                               !.creators = << [address |-> KeyMixed,
                                                verified |-> 1,
                                                share |-> 100] >>]),
      [Whole(BaseRecord) EXCEPT !.keep = 0],
      [Whole(BaseRecord) EXCEPT !.keep = NameLenOffset + 2],
      [Whole(BaseRecord) EXCEPT !.version = 0],
      Whole([BaseRecord EXCEPT !.uri = << 195 >>]) }

(***************************************************************************)
(* get_metadata: derive the address, fetch with retries, decode.           *)
(***************************************************************************)

NoResponse == [bound |-> FALSE, has_value |-> FALSE, data |-> << >>]

\* An input whose buffer is empty: what src holds before any buffer is.
NoInput == [Whole(BaseRecord) EXCEPT !.keep = 0]

\* The frame of unpack_metadata_account before its first statement.
UnpackEntry ==
    /\ i = 0
    /\ source_account = << >> /\ mint_account = << >>
    /\ name_len = Wide(0) /\ name = << >>
    /\ symbol_len = Wide(0) /\ symbol = << >>
    /\ uri_len = Wide(0) /\ uri = << >>
    /\ fee = 0
    /\ has_creator = 0 /\ creator_len = Wide(0)
    /\ creators = << >> /\ verified = << >> /\ share = << >>
    /\ primary_sale_happened = PyBool(0) /\ is_mutable = PyBool(0)
    /\ metadata = << >>

\* get_metadata is called.
Init ==
    /\ pc = "derive"
    /\ err = ""
    /\ attempt = 0
    /\ acc_info = NoResponse
    /\ calls = << >>
    /\ invoked = FALSE
    /\ src = NoInput
    /\ data = << >>
    /\ UnpackEntry

\* unpack_metadata_account is called on a buffer.
InitUnpack ==
    /\ pc = "version"
    /\ err = ""
    /\ attempt = 0
    /\ acc_info = NoResponse
    /\ calls = << >>
    /\ invoked = TRUE
    /\ src \in Inputs
    /\ data = Buffer(src)
    /\ UnpackEntry

\* An exception leaves the frame: nothing is returned.
Raise(e) ==
    /\ pc' = "failed"
    /\ err' = e
    /\ UNCHANGED << fetchVars, localVars, metadata >>

\* nft_pda = get_nft_metadata_account(mint): Pubkey.from_string raises
\* ValueError on a string that is no key.
Derive ==
    /\ pc = "derive"
    /\ \E valid \in BOOLEAN :
         IF valid
         THEN /\ pc' = "fetch"
              /\ UNCHANGED << err, fetchVars, localVars, metadata >>
         ELSE Raise("ValueError")

\* A test that never ends the loop.
PopulatedNever(resp) == FALSE

\* not (not acc_info or not acc_info.value): the response holds an account.
Populated(resp) == resp.bound /\ resp.has_value

\* One pass of the try block: get_account_info raises, or it answers, with
\* no account (value is None) or with the account of some buffer.  An
\* answer with an account leaves the loop (break); for one without, the
\* ValueError raised is caught like any other exception.
Fetch ==
    /\ pc = "fetch"
    /\ \/ /\ calls' = Append(calls, "raised")
          /\ pc' = "sleep"
          /\ UNCHANGED << acc_info, src >>
       \/ \E in \in FetchInputs, has \in BOOLEAN :
            LET resp == [bound |-> TRUE, has_value |-> has,
                         data |-> IF has THEN Buffer(in) ELSE << >>]
            IN  /\ acc_info' = resp
                /\ src' = IF has THEN in ELSE src
                /\ calls' = Append(calls, IF resp.has_value THEN "populated"
                                          ELSE "empty")
                /\ pc' = IF Populated(resp) THEN "extract" ELSE "sleep"
    /\ UNCHANGED << err, attempt, invoked, data, localVars, metadata >>

\* except: time.sleep(5), then the next pass of range(3) if there is one.
Sleep ==
    /\ pc = "sleep"
    /\ IF attempt + 1 < FetchAttempts
       THEN attempt' = attempt + 1 /\ pc' = "fetch"
       ELSE attempt' = attempt /\ pc' = "extract"
    /\ UNCHANGED << err, acc_info, calls, invoked, src, data, localVars,
                    metadata >>

\* A read of acc_info.value.data that takes a response without an account
\* as one with no data.
HasDataLoose(resp) == resp.bound

\* acc_info.value.data can be read: acc_info is bound and its value is not
\* None.
HasData(resp) == resp.bound /\ resp.has_value

\* data = acc_info.value.data, and the call of unpack_metadata_account.
Extract ==
    /\ pc = "extract"
    /\ IF ~acc_info.bound THEN Raise("UnboundLocalError")
       ELSE IF ~HasData(acc_info) THEN Raise("AttributeError")
       ELSE /\ data' = acc_info.data
            /\ invoked' = TRUE
            /\ pc' = "version"
            /\ UNCHANGED << err, attempt, acc_info, calls, src, localVars,
                            metadata >>

(***************************************************************************)
(* unpack_metadata_account, one action for each read.                      *)
(***************************************************************************)

\* assert(data[0] == 4); i = 1
ReadVersion ==
    /\ pc = "version"
    /\ IF Index(data, 0) = << >> THEN Raise("IndexError")
       ELSE IF ~VersionOK(Index(data, 0)[1]) THEN Raise("AssertionError")
       ELSE /\ i' = 1
            /\ pc' = "update_authority"
            /\ UNCHANGED << err, fetchVars, keyVars, textVars, fee,
                            creatorVars, flagVars, metadata >>

\* source_account = b58encode(bytes(unpack("B"*32, data[i:i+32]))); i += 32
ReadUpdateAuthority ==
    /\ pc = "update_authority"
    /\ LET s == Slice(data, i, Wide(KeyLen))
       IN  \E o \in UnpackOutcomes(Wide(KeyLen), s) :
           IF o # "ok" THEN Raise(o)
           ELSE /\ source_account' = B58Encode(s)
                /\ i' = i + KeyLen
                /\ pc' = "mint"
                /\ UNCHANGED << err, fetchVars, mint_account, textVars, fee,
                                creatorVars, flagVars, metadata >>

\* mint_account = b58encode(bytes(unpack("B"*32, data[i:i+32]))); i += 32
ReadMint ==
    /\ pc = "mint"
    /\ LET s == Slice(data, i, Wide(KeyLen))
       IN  \E o \in UnpackOutcomes(Wide(KeyLen), s) :
           IF o # "ok" THEN Raise(o)
           ELSE /\ mint_account' = B58Encode(s)
                /\ i' = i + KeyLen
                /\ pc' = "name_len"
                /\ UNCHANGED << err, fetchVars, source_account, textVars, fee,
                                creatorVars, flagVars, metadata >>

\* name_len = unpack('<I', data[i:i+4])[0]; i += 4
ReadNameLen ==
    /\ pc = "name_len"
    /\ LET s == Slice(data, i, Wide(4))
       IN  \E o \in UnpackOutcomes(Wide(4), s) :
           IF o # "ok" THEN Raise(o)
           ELSE /\ name_len' = UnpackU32(s)
                /\ i' = i + 4
                /\ pc' = "name"
                /\ UNCHANGED << err, fetchVars, keyVars, name, symbol_len,
                                symbol, uri_len, uri, fee, creatorVars,
                                flagVars, metadata >>

\* name = unpack("B"*name_len, data[i:i+name_len]); i += name_len
ReadName ==
    /\ pc = "name"
    /\ LET s == Slice(data, i, name_len)
       IN  \E o \in UnpackOutcomes(name_len, s) :
           IF o # "ok" THEN Raise(o)
           ELSE /\ name' = s
                /\ i' = i + Narrow(name_len)
                /\ pc' = "symbol_len"
                /\ UNCHANGED << err, fetchVars, keyVars, name_len, symbol_len,
                                symbol, uri_len, uri, fee, creatorVars,
                                flagVars, metadata >>

\* symbol_len = unpack('<I', data[i:i+4])[0]; i += 4
ReadSymbolLen ==
    /\ pc = "symbol_len"
    /\ LET s == Slice(data, i, Wide(4))
       IN  \E o \in UnpackOutcomes(Wide(4), s) :
           IF o # "ok" THEN Raise(o)
           ELSE /\ symbol_len' = UnpackU32(s)
                /\ i' = i + 4
                /\ pc' = "symbol"
                /\ UNCHANGED << err, fetchVars, keyVars, name_len, name,
                                symbol, uri_len, uri, fee, creatorVars,
                                flagVars, metadata >>

\* symbol = unpack("B"*symbol_len, data[i:i+symbol_len]); i += symbol_len
ReadSymbol ==
    /\ pc = "symbol"
    /\ LET s == Slice(data, i, symbol_len)
       IN  \E o \in UnpackOutcomes(symbol_len, s) :
           IF o # "ok" THEN Raise(o)
           ELSE /\ symbol' = s
                /\ i' = i + Narrow(symbol_len)
                /\ pc' = "uri_len"
                /\ UNCHANGED << err, fetchVars, keyVars, name_len, name,
                                symbol_len, uri_len, uri, fee, creatorVars,
                                flagVars, metadata >>

\* uri_len = unpack('<I', data[i:i+4])[0]; i += 4
ReadUriLen ==
    /\ pc = "uri_len"
    /\ LET s == Slice(data, i, Wide(4))
       IN  \E o \in UnpackOutcomes(Wide(4), s) :
           IF o # "ok" THEN Raise(o)
           ELSE /\ uri_len' = UnpackU32(s)
                /\ i' = i + 4
                /\ pc' = "uri"
                /\ UNCHANGED << err, fetchVars, keyVars, name_len, name,
                                symbol_len, symbol, uri, fee, creatorVars,
                                flagVars, metadata >>

\* uri = unpack("B"*uri_len, data[i:i+uri_len]); i += uri_len
ReadUri ==
    /\ pc = "uri"
    /\ LET s == Slice(data, i, uri_len)
       IN  \E o \in UnpackOutcomes(uri_len, s) :
           IF o # "ok" THEN Raise(o)
           ELSE /\ uri' = s
                /\ i' = i + Narrow(uri_len)
                /\ pc' = "fee"
                /\ UNCHANGED << err, fetchVars, keyVars, name_len, name,
                                symbol_len, symbol, uri_len, fee, creatorVars,
                                flagVars, metadata >>

\* fee = unpack('<h', data[i:i+2])[0]; i += 2
ReadFee ==
    /\ pc = "fee"
    /\ LET s == Slice(data, i, Wide(2))
       IN  \E o \in UnpackOutcomes(Wide(2), s) :
           IF o # "ok" THEN Raise(o)
           ELSE /\ fee' = UnpackI16(s)
                /\ i' = i + 2
                /\ pc' = "has_creator"
                /\ UNCHANGED << err, fetchVars, keyVars, textVars,
                                creatorVars, flagVars, metadata >>

\* has_creator = data[i]; i += 1; the three lists start empty; if has_creator
ReadHasCreator ==
    /\ pc = "has_creator"
    /\ IF Index(data, i) = << >> THEN Raise("IndexError")
       ELSE /\ has_creator' = Index(data, i)[1]
            /\ i' = i + 1
            /\ creators' = << >> /\ verified' = << >> /\ share' = << >>
            /\ pc' = IF Truthy(has_creator') THEN "creator_len"
                     ELSE "primary_sale_happened"
            /\ UNCHANGED << err, fetchVars, keyVars, textVars, fee,
                            creator_len, flagVars, metadata >>

\* creator_len = unpack('<I', data[i:i+4])[0]; i += 4; for _ in range(...)
ReadCreatorLen ==
    /\ pc = "creator_len"
    /\ LET s == Slice(data, i, Wide(4))
       IN  \E o \in UnpackOutcomes(Wide(4), s) :
           IF o # "ok" THEN Raise(o)
           ELSE /\ creator_len' = UnpackU32(s)
                /\ i' = i + 4
                /\ pc' = IF InRange(0, creator_len') THEN "creator"
                         ELSE "primary_sale_happened"
                /\ UNCHANGED << err, fetchVars, keyVars, textVars, fee,
                                has_creator, creators, verified, share,
                                flagVars, metadata >>

\* creator = b58encode(bytes(unpack("B"*32, data[i:i+32])));
\* creators.append(creator); i += 32
ReadCreator ==
    /\ pc = "creator"
    /\ LET s == Slice(data, i, Wide(KeyLen))
       IN  \E o \in UnpackOutcomes(Wide(KeyLen), s) :
           IF o # "ok" THEN Raise(o)
           ELSE /\ creators' = Append(creators, B58Encode(s))
                /\ i' = i + KeyLen
                /\ pc' = "verified"
                /\ UNCHANGED << err, fetchVars, keyVars, textVars, fee,
                                has_creator, creator_len, verified, share,
                                flagVars, metadata >>

\* verified.append(data[i]); i += 1
ReadVerified ==
    /\ pc = "verified"
    /\ IF Index(data, i) = << >> THEN Raise("IndexError")
       ELSE /\ verified' = Append(verified, PyInt(Index(data, i)[1]))
            /\ i' = i + 1
            /\ pc' = "share"
            /\ UNCHANGED << err, fetchVars, keyVars, textVars, fee,
                            has_creator, creator_len, creators, share,
                            flagVars, metadata >>

\* share.append(data[i]); i += 1; then the next pass of range(creator_len)
ReadShare ==
    /\ pc = "share"
    /\ IF Index(data, i) = << >> THEN Raise("IndexError")
       ELSE /\ share' = Append(share, Index(data, i)[1])
            /\ i' = i + 1
            /\ pc' = IF InRange(Len(share'), creator_len) THEN "creator"
                     ELSE "primary_sale_happened"
            /\ UNCHANGED << err, fetchVars, keyVars, textVars, fee,
                            has_creator, creator_len, creators, verified,
                            flagVars, metadata >>

\* primary_sale_happened = bool(data[i]); i += 1
ReadPrimarySale ==
    /\ pc = "primary_sale_happened"
    /\ IF Index(data, i) = << >> THEN Raise("IndexError")
       ELSE /\ primary_sale_happened' = PyBool(Index(data, i)[1])
            /\ i' = i + 1
            /\ pc' = "is_mutable"
            /\ UNCHANGED << err, fetchVars, keyVars, textVars, fee,
                            creatorVars, is_mutable, metadata >>

\* is_mutable = bool(data[i])
ReadIsMutable ==
    /\ pc = "is_mutable"
    /\ IF Index(data, i) = << >> THEN Raise("IndexError")
       ELSE /\ is_mutable' = PyBool(Index(data, i)[1])
            /\ pc' = "metadata"
            /\ UNCHANGED << err, fetchVars, i, keyVars, textVars, fee,
                            creatorVars, primary_sale_happened, metadata >>

\* bytes(t).decode("utf-8").strip("\x00")
Text(t) == StripNul(Utf8Decode(t, << >>).text)

\* metadata = { ... }; return metadata.  The three texts are decoded in the
\* order name, symbol, uri, and the first that is not UTF-8 raises.
BuildMetadata ==
    /\ pc = "metadata"
    /\ IF \E t \in { name, symbol, uri } : ~Utf8Decode(t, << >>).ok
       THEN Raise("UnicodeDecodeError")
       ELSE /\ metadata' =
                 << [ update_authority |-> source_account,
                      mint |-> mint_account,
                      data |-> [ name |-> Text(name),
                                 symbol |-> Text(symbol),
                                 uri |-> Text(uri),
                                 seller_fee_basis_points |-> fee,
                                 creators |-> creators,
                                 verified |-> verified,
                                 share |-> share ],
                      primary_sale_happened |-> primary_sale_happened,
                      is_mutable |-> is_mutable ] >>
            /\ pc' = "done"
            /\ UNCHANGED << err, fetchVars, localVars >>

Unpack ==
    \/ ReadVersion \/ ReadUpdateAuthority \/ ReadMint
    \/ ReadNameLen \/ ReadName
    \/ ReadSymbolLen \/ ReadSymbol
    \/ ReadUriLen \/ ReadUri
    \/ ReadFee
    \/ ReadHasCreator \/ ReadCreatorLen
    \/ ReadCreator \/ ReadVerified \/ ReadShare
    \/ ReadPrimarySale \/ ReadIsMutable
    \/ BuildMetadata

Next == Derive \/ Fetch \/ Sleep \/ Extract \/ Unpack

\* get_metadata, from its call to its return or exception.
Spec == Init /\ [][Next]_vars

\* unpack_metadata_account alone, on every buffer of Inputs.
UnpackSpec == InitUnpack /\ [][Unpack]_vars

(***************************************************************************)
(* What the claims are stated with.                                        *)
(***************************************************************************)

\* The returned dict, where there is one.
Result == metadata[1]

Returned == pc = "done"
Ended == pc \in { "done", "failed" }

\* The statements of the creator block.
CreatorPcs == { "creator_len", "creator", "verified", "share" }

\* The position of a character in the base-58 alphabet, from 0.
B58Index(c) == (CHOOSE k \in 1..Len(B58Alphabet) : B58Alphabet[k] = c) - 1

\* num * 58 + carry on a big-endian byte string.
RECURSIVE MulAdd58(_, _)
MulAdd58(num, carry) ==
    IF num = << >> THEN (IF carry = 0 THEN << >> ELSE << carry >>)
    ELSE LET v == num[Len(num)] * B58Base + carry
         IN  Append(MulAdd58(SubSeq(num, 1, Len(num) - 1), v \div 256),
                    v % 256)

RECURSIVE B58DecodeInt(_, _)
B58DecodeInt(text, acc) ==
    IF text = << >> THEN acc
    ELSE B58DecodeInt(Tail(text), MulAdd58(acc, B58Index(Head(text))))

RECURSIVE LStripOne(_)
LStripOne(text) ==
    IF text # << >> /\ Head(text) = B58Alphabet[1] THEN LStripOne(Tail(text))
    ELSE text

\* The bytes a base-58 text stands for (the inverse of b58encode): a zero
\* byte for each leading "1", then the big-endian bytes of the rest.
B58Decode(text) ==
    LET rest == LStripOne(text)
    IN  [j \in 1..(Len(text) - Len(rest)) |-> 0] \o B58DecodeInt(rest, << >>)

\* The buffer is the wire form of src.rec, whole, with or without bytes
\* after it.
IsWhole ==
    /\ src.version = 4
    /\ src.nlen = << >>
    /\ src.keep = Len(Encode(src.rec))

\* The three texts of src.rec are UTF-8.
TextsAreUtf8 ==
    \A t \in { src.rec.name, src.rec.symbol, src.rec.uri } :
        Utf8Decode(t, << >>).ok

\* The buffer is a strict prefix of the wire form of src.rec.
IsCut ==
    /\ src.version = 4
    /\ src.nlen = << >>
    /\ src.tail = << >>
    /\ src.keep < Len(Encode(src.rec))

\* The index of the hasCreators byte in the wire form of r.
FlagOffset(r) ==
    NameLenOffset + 4 + Len(r.name) + 4 + Len(r.symbol) + 4 + Len(r.uri) + 2

\* The index of the first byte of the k-th creator entry, k from 1.
CreatorOffset(r, k) == FlagOffset(r) + 1 + 4 + 34 * (k - 1)

\* The text a field's content stands for: its code points without the NUL
\* padding at its end.
Logical(t) == RStripNul(Utf8Decode(t, << >>).text)

(***************************************************************************)
(* C1: every whole wire form whose texts are UTF-8 decodes, and every      *)
(* field of the result equals the value the buffer was built from: the     *)
(* keys behind the base-58 texts, the texts without their NUL padding, the *)
(* fee, the creators with verified and share, the two flags.               *)
(***************************************************************************)
RoundTrip ==
    (IsWhole /\ TextsAreUtf8 /\ Ended) =>
        /\ Returned
        /\ B58Decode(Result.update_authority) = src.rec.update_authority
        /\ B58Decode(Result.mint) = src.rec.mint
        /\ Result.data.name = Logical(src.rec.name)
        /\ Result.data.symbol = Logical(src.rec.symbol)
        /\ Result.data.uri = Logical(src.rec.uri)
        /\ Result.data.seller_fee_basis_points = src.rec.fee
        /\ LET cs == IF src.rec.has_creator # 0 THEN src.rec.creators
                     ELSE << >>
           IN  /\ Len(Result.data.creators) = Len(cs)
               /\ Len(Result.data.verified) = Len(cs)
               /\ Len(Result.data.share) = Len(cs)
               /\ \A k \in 1..Len(cs) :
                    /\ B58Decode(Result.data.creators[k]) = cs[k].address
                    /\ Result.data.verified[k].val = PyBool(cs[k].verified).val
                    /\ Result.data.share[k] = cs[k].share
        /\ Result.primary_sale_happened.val
               = PyBool(src.rec.primary_sale_happened).val
        /\ Result.is_mutable.val = PyBool(src.rec.is_mutable).val

\* The statements of unpack_metadata_account in the order of the source.
PcOrder ==
    << "version", "update_authority", "mint", "name_len", "name",
       "symbol_len", "symbol", "uri_len", "uri", "fee", "has_creator",
       "creator_len", "creator", "verified", "share",
       "primary_sale_happened", "is_mutable", "metadata", "done" >>

Rank(p) == CHOOSE k \in 1..Len(PcOrder) : PcOrder[k] = p

\* A step of the decoder fails, or consumes bytes, or moves on to a later
\* statement without consuming any.
Advances ==
    \/ pc' = "failed" /\ i' = i
    \/ pc' # "failed" /\ i' > i
    \/ pc' # "failed" /\ i' = i /\ Rank(pc') > Rank(pc)

(***************************************************************************)
(* C2: on a strict prefix of a wire form the decoder never reaches its     *)
(* return: it is at a read or has failed, on a read past the end, no       *)
(* record exists at any step, and every step it takes fails or advances.   *)
(***************************************************************************)
CutNeverReturns ==
    /\ [](IsCut =>
            /\ pc = "failed" \/ Rank(pc) < Rank("metadata")
            /\ metadata = << >>
            /\ pc = "failed" => err \in { "IndexError", "struct.error" })
    /\ [][IsCut => Advances]_vars

\* A buffer cut inside the creator block (after the address of the first
\* creator) has failed.
CutInCreatorBlock ==
    /\ IsCut /\ invoked
    /\ pc = "failed"
    /\ Len(creators) = 1 /\ verified = << >>

(***************************************************************************)
(* C3: when the first byte is not 4 the decoder fails on its assertion,    *)
(* and nothing else has been read: the index and every local are as on     *)
(* entry.                                                                  *)
(***************************************************************************)
BadVersionFails ==
    (invoked /\ data # << >> /\ data[1] # 4) =>
        /\ pc = "version" \/ (pc = "failed" /\ err = "AssertionError")
        /\ UnpackEntry

\* A buffer of one byte, not 4, has failed on the assertion.
BadVersionAlone ==
    /\ invoked /\ Len(data) = 1 /\ data[1] # 4
    /\ pc = "failed" /\ err = "AssertionError"

(***************************************************************************)
(* C4: each decoded text is the content of its field without the NUL       *)
(* characters at its end, and with every other character kept.             *)
(***************************************************************************)
OnlyTrailingNulRemoved ==
    Returned =>
        /\ Result.data.name = Logical(name)
        /\ Result.data.symbol = Logical(symbol)
        /\ Result.data.uri = Logical(uri)

(***************************************************************************)
(* C5: when the hasCreators byte is 0 no statement of the creator block    *)
(* runs, the three lists are empty, and the two bytes after the flag are   *)
(* primarySaleHappened and isMutable.                                      *)
(***************************************************************************)
NoCreatorBlock ==
    (invoked /\ IsWhole /\ src.rec.has_creator = 0) =>
        LET f == FlagOffset(src.rec)
        IN  /\ pc \notin CreatorPcs
            /\ creators = << >> /\ verified = << >> /\ share = << >>
            /\ pc = "primary_sale_happened" => i = f + 1
            /\ pc = "is_mutable" =>
                 primary_sale_happened = PyBool(data[f + 2])
            /\ Returned =>
                 /\ Result.data.creators = << >>
                 /\ Result.data.verified = << >>
                 /\ Result.data.share = << >>
                 /\ Result.primary_sale_happened = PyBool(data[f + 2])
                 /\ Result.is_mutable = PyBool(data[f + 3])

\* A record without creators, with the two flags different, has been
\* returned.
NoCreatorsReturned ==
    /\ invoked /\ IsWhole /\ src.rec.has_creator = 0
    /\ Returned
    /\ Result.primary_sale_happened # Result.is_mutable

(***************************************************************************)
(* C6: when the hasCreators byte is not 0 and the count after it is n, a   *)
(* returned record has n creators, n verified values and n shares, the     *)
(* k-th of each from the k-th entry: the 32 bytes of the address, then the *)
(* verified byte, then the share byte.                                     *)
(***************************************************************************)
CreatorsInOrder ==
    (invoked /\ IsWhole /\ src.rec.has_creator # 0 /\ Returned) =>
        LET n == UnpackU32(SubSeq(data, FlagOffset(src.rec) + 2,
                                  FlagOffset(src.rec) + 5))
        IN  /\ Wide(Len(Result.data.creators)) = n
            /\ Wide(Len(Result.data.verified)) = n
            /\ Wide(Len(Result.data.share)) = n
            /\ \A k \in 1..Narrow(n) :
                 LET o == CreatorOffset(src.rec, k)
                 IN  /\ B58Decode(Result.data.creators[k])
                            = SubSeq(data, o + 1, o + KeyLen)
                     /\ Result.data.verified[k].val = data[o + KeyLen + 1]
                     /\ Result.data.share[k] = data[o + KeyLen + 2]

\* A record with two creators that differ in address, verified and share
\* has been returned, under a hasCreators byte other than 1.
TwoCreatorsReturned ==
    /\ invoked /\ IsWhole /\ src.rec.has_creator = 255
    /\ Returned
    /\ Len(Result.data.creators) = 2
    /\ Result.data.creators[1] # Result.data.creators[2]
    /\ Result.data.verified[1] # Result.data.verified[2]
    /\ Result.data.share[1] # Result.data.share[2]

(***************************************************************************)
(* C7: at every step, on every buffer, the index is at most the length of  *)
(* the buffer: a read that would end past the buffer's end raises before   *)
(* the index is moved.                                                     *)
(***************************************************************************)
CursorInBounds == i <= Len(data)

\* The decoder has failed on a declared length that reaches past the end
\* of a buffer it had begun to read.
LengthPastEnd ==
    /\ invoked
    /\ pc = "failed" /\ err = "struct.error"
    /\ i > 0 /\ WideLt(Wide(Len(data) - i), name_len)

(***************************************************************************)
(* C8: in a returned record primarySaleHappened, isMutable and every       *)
(* verified value is a bool, True exactly when its byte is not 0.          *)
(***************************************************************************)
FlagsAreBooleans ==
    (invoked /\ IsWhole /\ Returned) =>
        LET f  == FlagOffset(src.rec)
            cs == IF src.rec.has_creator # 0 THEN src.rec.creators ELSE << >>
            e  == IF src.rec.has_creator # 0 THEN f + 5 + 34 * Len(cs)
                  ELSE f + 1
        IN  /\ Result.primary_sale_happened = PyBool(data[e + 1])
            /\ Result.is_mutable = PyBool(data[e + 2])
            /\ \A k \in 1..Len(cs) :
                 Result.data.verified[k]
                     = PyBool(data[CreatorOffset(src.rec, k) + KeyLen + 1])

(***************************************************************************)
(* C9: the decoder is called only after a get_account_info call that       *)
(* answered with an account, on that account's data; while no call has,    *)
(* get_metadata is in its loop or has failed, the decoder is not called    *)
(* and nothing is returned.                                                *)
(***************************************************************************)
NonePopulated == \A k \in 1..Len(calls) : calls[k] # "populated"

DecodeOnlyAfterFetch ==
    /\ invoked =>
         /\ calls # << >> /\ calls[Len(calls)] = "populated"
         /\ acc_info.has_value /\ data = acc_info.data
    /\ NonePopulated =>
         /\ ~invoked
         /\ metadata = << >>
         /\ pc \in { "derive", "fetch", "sleep", "extract", "failed" }
         /\ pc # "failed" => ENABLED Next

\* Three calls, the last of which answered with no account, and
\* get_metadata has failed.
AllAttemptsFailed ==
    /\ Len(calls) = 3 /\ NonePopulated /\ calls[3] = "empty"
    /\ pc = "failed" /\ err = "AttributeError"

(***************************************************************************)
(* C10: get_account_info is called at most 3 times; every call but the     *)
(* last raised or answered with no account; a call that answers with an    *)
(* account ends the loop; and the loop is left after at most 3 passes,     *)
(* each of a call and, when it fails, a sleep.                             *)
(***************************************************************************)
AtMostThreeFetches ==
    /\ Len(calls) <= 3
    /\ \A k \in 1..(Len(calls) - 1) : calls[k] # "populated"
    /\ pc = "fetch" => (Len(calls) = attempt /\ attempt < 3 /\ NonePopulated)
    /\ pc = "sleep" => (Len(calls) = attempt + 1 /\ NonePopulated)
    /\ pc \in { "fetch", "sleep" } => ENABLED (Fetch \/ Sleep)

\* Two failed calls, then one that answered with an account, and the
\* record has been returned.
ThirdAttemptReturned ==
    /\ Len(calls) = 3 /\ calls[3] = "populated"
    /\ calls[1] = "raised" /\ calls[2] = "empty"
    /\ Returned

====
